---- MODULE Spec2Model ----
(***************************************************************************)
(* action-trissue: reconciliation of a Trivy scan report against the      *)
(* tracking issues of a repository.                                        *)
(*                                                                         *)
(* main is the main of src/unnamed/part_001 (banner 1.1.3), the report     *)
(* parser and the issue materializer are those of                          *)
(* src/src/report-generator.ts, the inputs are those of                    *)
(* src/unnamed/part_000.  The tracker behind the GitHub gateway            *)
(* (./github.js) is not part of the sources: it is modelled as a list of   *)
(* issues, numbered by position, on which a successful createIssue         *)
(* appends an open issue with the given title, reopenIssue opens and       *)
(* closeIssue closes the issue with the given number.                      *)
(*                                                                         *)
(* Spec is main, run after run on one tracker; SpecDry is main with the    *)
(* dry-run input chosen for every run, the first run a dry one; SpecParse  *)
(* is parseResults applied to a report and to existing issues.             *)
(*                                                                         *)
(* Strings are sequences of one-character strings, so that the title       *)
(* format, the case folding and the title pattern are computed and not     *)
(* assumed.                                                                *)
(***************************************************************************)
EXTENDS Integers, Sequences, FiniteSets, TLC

\* ------------------------------------------------------------------ bounds

\* Issues in the tracker before the first run.
MaxInitIssues == 2
\* Vulnerability entries in one result entry of a report.
MaxVulns == 2
\* Runs of main in one behaviour.
MaxRuns == 2
\* Result entries in a report handed to parseResults on its own.
MaxResults == 2

\* ----------------------------------------------------------------- strings

Null == << >>

\* String.prototype.toLowerCase on the characters of the model.
LowerChar(c) ==
  CASE c = "C" -> "c"
    [] c = "L" -> "l"
    [] c = "M" -> "m"
    [] OTHER -> c

toLowerCase(s) == [i \in 1..Len(s) |-> LowerChar(s[i])]

SetMin(S) == CHOOSE x \in S : \A y \in S : x <= y

\* Position of the first occurrence of pat in s at or after from, 0 if none.
IndexOfFrom(s, pat, from) ==
  LET cands == {i \in from..(Len(s) - Len(pat) + 1) :
                  SubSeq(s, i, i + Len(pat) - 1) = pat}
  IN IF cands = {} THEN 0 ELSE SetMin(cands)

Colon == <<":">>
ColonSpace == <<":", " ">>
Hyphen == <<"-">>
PackageWord == <<" ", "p", "a", "c", "k", "a", "g", "e", " ">>

\* title.match(/^(.*?):.*? package (.*?)-/): the lazy groups stop at the
\* first colon, the first " package " after it and the first hyphen after
\* that.  [ok, g1, g2].
titleRegex(title) ==
  LET c == IndexOfFrom(title, Colon, 1)
      p == IF c = 0 THEN 0 ELSE IndexOfFrom(title, PackageWord, c + 1)
      h == IF p = 0 THEN 0 ELSE IndexOfFrom(title, Hyphen, p + Len(PackageWord))
  IN IF h = 0
     THEN [ok |-> FALSE, g1 |-> Null, g2 |-> Null]
     ELSE [ok |-> TRUE,
           g1 |-> SubSeq(title, 1, c - 1),
           g2 |-> SubSeq(title, p + Len(PackageWord), h - 1)]

\* A mutant of getIdentifier: the looser pattern /^(.*?):/ of the earlier
\* main (src/src/index.ts:75-78), everything before the first colon.
getIdentifierLoose(source) ==
  LET c == IndexOfFrom(source.title, Colon, 1)
  IN IF c <= 1 THEN Null ELSE toLowerCase(SubSeq(source.title, 1, c - 1))

\* A mutant of getIdentifier: the second group runs to the end of the
\* title, /^(.*?):.*? package (.*)$/, and takes the version with it.
getIdentifierVersioned(source) ==
  LET m == titleRegex(source.title)
      p == IndexOfFrom(source.title, PackageWord, Len(m.g1) + 2)
  IN IF m.ok
     THEN toLowerCase(m.g1) \o Hyphen
            \o toLowerCase(SubSeq(source.title, p + Len(PackageWord), Len(source.title)))
     ELSE Null

\* A mutant of getIdentifier: the case folding is forgotten.
getIdentifierNoFold(source) ==
  LET m == titleRegex(source.title)
  IN IF m.ok THEN m.g1 \o Hyphen \o m.g2 ELSE Null

\* getIdentifier: the stable identifier of an issue title, Null when the
\* title does not have the shape.
getIdentifier(source) ==
  LET title ==
        IF "title" \in DOMAIN source
        THEN source.title
        ELSE source.report.vulnerabilities[1].VulnerabilityID \o ColonSpace
             \o source.report.package_type \o PackageWord \o source.report.package
      m == titleRegex(title)
  IN IF m.ok THEN toLowerCase(m.g1) \o Hyphen \o toLowerCase(m.g2) ELSE Null

\* ------------------------------------------------------------ report data

\* JSON values that are not what the parser expects at their place.
NotAList == [kind |-> "string", items |-> << >>]
NotARecord == [kind |-> "scalar"]

List(items) == [kind |-> "list", items |-> items]

VulnerabilityIDs == {<<"C">>}
PkgNames == {<<"l">>, <<"l", "-", "d">>, <<"m">>}
\* InstalledVersion and FixedVersion of a finding; an empty FixedVersion is
\* a finding without a fix.
Versions == {[InstalledVersion |-> <<"1">>, FixedVersion |-> Null],
             [InstalledVersion |-> <<"2">>, FixedVersion |-> <<"3">>]}
PkgType == <<"n">>
Target == <<"t">>

Vulnerabilities ==
  {[VulnerabilityID |-> id, PkgName |-> n,
    InstalledVersion |-> v.InstalledVersion, FixedVersion |-> v.FixedVersion] :
     id \in VulnerabilityIDs, n \in PkgNames, v \in Versions}

FirstVulnerability ==
  [VulnerabilityID |-> <<"C">>, PkgName |-> <<"l">>,
   InstalledVersion |-> <<"1">>, FixedVersion |-> Null]

\* The value of a field the JSON value does not have.
Undefined == <<"?">>

\* A finding the scanner wrote without a package name.
NamelessVulnerability ==
  [VulnerabilityID |-> <<"C">>, PkgName |-> Undefined,
   InstalledVersion |-> <<"1">>, FixedVersion |-> Null]

SeqsUpTo(S, n) == UNION {[1..k -> S] : k \in 0..n}

\* A result entry: a record with a Type, a Target and, when hasVulns, a
\* Vulnerabilities field.
Entry(hasVulns, vulns) ==
  [kind |-> "object", Type |-> PkgType, Target |-> Target,
   hasVulns |-> hasVulns, Vulnerabilities |-> vulns]

\* The reports a run may read: one result entry with up to MaxVulns
\* findings, a report without result entries, an entry without a
\* Vulnerabilities field, the three malformed shapes, and a malformed entry
\* after an entry with a finding.
ReportDicts ==
  {[Results |-> List(<<Entry(TRUE, List(vs))>>)] : vs \in SeqsUpTo(Vulnerabilities, MaxVulns)}
  \cup {[Results |-> List(<< >>)],
        [Results |-> List(<<Entry(FALSE, List(<< >>))>>)],
        [Results |-> NotAList],
        [Results |-> List(<<NotARecord>>)],
        [Results |-> List(<<Entry(TRUE, NotAList)>>)],
        [Results |-> List(<<Entry(TRUE, List(<<FirstVulnerability>>)), NotARecord>>)]}

\* ----------------------------------------------------- report-generator.ts

NullReports == [isNull |-> TRUE, reports |-> << >>]

\* title.split(': '): the first two parts, when there are at least two.
splitTitle(title) ==
  LET a == IndexOfFrom(title, ColonSpace, 1)
      b == IF a = 0 THEN 0 ELSE IndexOfFrom(title, ColonSpace, a + 2)
  IN IF a = 0
     THEN [many |-> FALSE, p0 |-> title, p1 |-> Null]
     ELSE [many |-> TRUE,
           p0 |-> SubSeq(title, 1, a - 1),
           p1 |-> SubSeq(title, a + 2, IF b = 0 THEN Len(title) ELSE b - 1)]

\* The identifiers parseResults derives from the titles of existing issues.
existingIssueSet(existing_issues) ==
  {toLowerCase(splitTitle(existing_issues[i].title).p0) \o Hyphen
     \o toLowerCase(splitTitle(existing_issues[i].title).p1) :
     i \in {j \in 1..Len(existing_issues) : splitTitle(existing_issues[j].title).many}}

\* One Report of parseResults.
Report(result, vulnerability) ==
  [id |-> vulnerability.PkgName \o Hyphen \o vulnerability.InstalledVersion
            \o Hyphen \o vulnerability.VulnerabilityID,
   package |-> vulnerability.PkgName \o Hyphen \o vulnerability.InstalledVersion,
   package_name |-> vulnerability.PkgName,
   package_version |-> vulnerability.InstalledVersion,
   package_fixed_version |-> vulnerability.FixedVersion,
   package_type |-> result.Type,
   target |-> result.Target,
   vulnerabilities |-> <<vulnerability>>]

\* The inner loop of parseResults over the vulnerabilities of one result,
\* from vulnerability k on: the reports, or thrown (a TypeError of
\* toLowerCase) when a finding has no VulnerabilityID or no PkgName.
RECURSIVE reportsOfResult(_, _, _, _)
reportsOfResult(result, vulns, k, existing) ==
  IF k > Len(vulns) THEN [thrown |-> FALSE, reports |-> << >>]
  ELSE LET v == vulns[k]
           issueIdentifier == toLowerCase(v.VulnerabilityID) \o Hyphen
                                \o toLowerCase(v.PkgName)
           rest == reportsOfResult(result, vulns, k + 1, existing)
       IN IF v.VulnerabilityID = Undefined \/ v.PkgName = Undefined
          THEN [thrown |-> TRUE, reports |-> << >>]
          ELSE IF rest.thrown \/ issueIdentifier \in existing
          THEN rest
          ELSE [thrown |-> FALSE, reports |-> <<Report(result, v)>> \o rest.reports]

\* A mutant of parseFrom: an entry that is not a record, or whose
\* Vulnerabilities field is not a list, is passed over.
RECURSIVE parseFromSkipping(_, _, _)
parseFromSkipping(results, idx, existing) ==
  IF idx > Len(results) THEN [thrown |-> FALSE, reports |-> << >>]
  ELSE LET result == results[idx]
           rest == parseFromSkipping(results, idx + 1, existing)
       IN IF result.kind # "object"
          THEN rest
          ELSE IF ~result.hasVulns
          THEN rest
          ELSE IF result.Vulnerabilities.kind # "list"
          THEN rest
          ELSE LET inner == reportsOfResult(result, result.Vulnerabilities.items,
                                            1, existing)
               IN IF inner.thrown
                  THEN inner
                  ELSE IF rest.thrown
                  THEN rest
                  ELSE [thrown |-> FALSE, reports |-> inner.reports \o rest.reports]

\* The outer loop of parseResults from index idx on: the reports, or thrown
\* when an entry is malformed.
RECURSIVE parseFrom(_, _, _)
parseFrom(results, idx, existing) ==
  IF idx > Len(results) THEN [thrown |-> FALSE, reports |-> << >>]
  ELSE LET result == results[idx]
           rest == parseFrom(results, idx + 1, existing)
       IN IF result.kind # "object"
          THEN [thrown |-> TRUE, reports |-> << >>]
          ELSE IF ~result.hasVulns
          THEN rest
          ELSE IF result.Vulnerabilities.kind # "list"
          THEN [thrown |-> TRUE, reports |-> << >>]
          ELSE LET inner == reportsOfResult(result, result.Vulnerabilities.items,
                                            1, existing)
               IN IF inner.thrown
                  THEN inner
                  ELSE IF rest.thrown
                  THEN rest
                  ELSE [thrown |-> FALSE, reports |-> inner.reports \o rest.reports]

\* The catch branch of parseResults is taken: the error is written to the
\* console.
parseThrows(data, existing_issues) ==
  \/ data.Results.kind # "list"
  \/ parseFrom(data.Results.items, 1, existingIssueSet(existing_issues)).thrown

\* A mutant of parseResults: the reports of the entries that precede a
\* malformed entry are returned.
parseResultsPartial(data, existing_issues) ==
  IF data.Results.kind # "list"
  THEN NullReports
  ELSE LET r == parseFromSkipping(data.Results.items, 1,
                                  existingIssueSet(existing_issues))
       IN IF r.thrown \/ Len(r.reports) = 0
          THEN NullReports
          ELSE [isNull |-> FALSE, reports |-> r.reports]

\* parseResults(data, existing_issues): null when the report is malformed
\* and when no report is left.
parseResults(data, existing_issues) ==
  IF data.Results.kind # "list"
  THEN NullReports
  ELSE LET r == parseFrom(data.Results.items, 1, existingIssueSet(existing_issues))
       IN IF r.thrown \/ Len(r.reports) = 0
          THEN NullReports
          ELSE [isNull |-> FALSE, reports |-> r.reports]

NoKnownFix == <<"N">>

\* One Issue of generateIssues.
Issue(report) ==
  LET vulnerability == report.vulnerabilities[1]
  IN [id |-> report.id,
      report |-> report,
      title |-> vulnerability.VulnerabilityID \o ColonSpace \o report.package_type
                  \o PackageWord \o report.package,
      body |-> [fixedIn |-> IF report.package_fixed_version # Null
                            THEN report.package_fixed_version ELSE NoKnownFix,
                VulnerabilityID |-> vulnerability.VulnerabilityID,
                package_name |-> report.package_name,
                package_version |-> report.package_version],
      hasFix |-> report.package_fixed_version # Null]

generateIssues(reports) == [i \in 1..Len(reports) |-> Issue(reports[i])]

\* ------------------------------------------------------------------- state

VARIABLES
  issues,               \* the tracker: issue number n is issues[n]
  labels,               \* the tracker: the labels that exist
  env,                  \* the action's inputs, as the workflow sets them
  run,                  \* runs of main started so far
  pc,                   \* where main is
  reportData,           \* the report file of the current run
  rerun,                \* the current run repeats a completed run's report
  prev,                 \* the mode of that completed run, the log and the
                        \* listing of a dry one; or that the run before
                        \* aborted on this report after a call was applied
  existingTrivyIssues,  \* main: the listing fetched at the start of the run
  reports,              \* main: what parseResults returned
  parseError,           \* parseResults wrote an error to the console
  newVulnerabilities,   \* main: the Map, as its entries in insertion order
  idx,                  \* main: position in the loop at pc
  calls,                \* gateway calls of the current run, in order
  log,                  \* [Dry Run] lines of the current run, in order
  issuesCreated,        \* main: responses of createIssue
  issuesUpdated,        \* main: responses of reopenIssue
  issuesClosed,         \* main: responses of closeIssue
  outputs,              \* core.setOutput of the current run
  exitCode              \* process exit status of the current run

vars == <<issues, labels, env, run, pc, reportData, rerun, prev,
          existingTrivyIssues, reports, parseError, newVulnerabilities, idx,
          calls, log, issuesCreated, issuesUpdated, issuesClosed, outputs,
          exitCode>>

runVars == <<existingTrivyIssues, reports, parseError, newVulnerabilities,
             issuesCreated, issuesUpdated, issuesClosed, outputs>>

\* ------------------------------------------------------------------ inputs

\* The labels input at its documented default, and the fix-label input.
LabelsInput == <<"trivy", "vulnerability">>
FixLabelInput == "fix-available"

\* A mutant of Inputs: the dry-run input is not read.
InputsNoDryRun(e) ==
  [labels |-> LabelsInput,
   createLabels |-> (e.createLabels = "true") \/ TRUE,
   enableFixLabel |-> (e.enableFixLabel = "true") \/ TRUE,
   fixLabel |-> IF FixLabelInput # "" THEN FixLabelInput ELSE "fix-available",
   dryRun |-> FALSE]

\* new Inputs(): the fields main reads.
Inputs(e) ==
  [labels |-> LabelsInput,
   createLabels |-> (e.createLabels = "true") \/ TRUE,
   enableFixLabel |-> (e.enableFixLabel = "true") \/ TRUE,
   fixLabel |-> IF FixLabelInput # "" THEN FixLabelInput ELSE "fix-available",
   dryRun |-> (e.dryRun = "true") \/ FALSE]

inputs == Inputs(env)

labelsToCreate ==
  IF inputs.createLabels
  THEN inputs.labels \o (IF inputs.enableFixLabel /\ inputs.fixLabel # ""
                         THEN <<inputs.fixLabel>> ELSE << >>)
  ELSE << >>

\* ----------------------------------------------------------------- tracker

ManualTitle == <<"M">>
ColonTitle == <<"C", ":", " ", "l">>

\* Titles of the issues a tracker may hold before the first run: those of
\* earlier scans, and two that do not have the shape.
InitTitles ==
  {Issue(Report(Entry(TRUE, List(<< >>)), v)).title :
     v \in {w \in Vulnerabilities : w.InstalledVersion = <<"1">>}}
  \cup {ManualTitle, ColonTitle}

InitIssues == {[title |-> t, state |-> s, by |-> 0] :
                 t \in InitTitles, s \in {"open", "closed"}}

\* github.getTrivyIssues: the issues of the tracker, with their numbers.
getTrivyIssues ==
  [n \in 1..Len(issues) |-> [number |-> n, title |-> issues[n].title,
                             state |-> issues[n].state]]

\* The tracker after github.createIssue, reopenIssue and closeIssue.
createIssue(option) ==
  Append(issues, [title |-> option.title, state |-> "open", by |-> run])
reopenIssue(number) == [issues EXCEPT ![number].state = "open"]
closeIssue(number) == [issues EXCEPT ![number].state = "closed"]

Call(op, arg, ok) == [op |-> op, arg |-> arg, ok |-> ok]

\* ------------------------------------------------------------- Map<string, Issue>

MapHas(m, k) == \E i \in 1..Len(m) : m[i].key = k
\* A mutant of MapSet: a key that is in the map keeps its value.
MapSetKeepFirst(m, k, v) ==
  IF MapHas(m, k) THEN m ELSE Append(m, [key |-> k, value |-> v])

MapSet(m, k, v) ==
  IF MapHas(m, k)
  THEN [i \in 1..Len(m) |-> IF m[i].key = k THEN [key |-> k, value |-> v] ELSE m[i]]
  ELSE Append(m, [key |-> k, value |-> v])
\* A mutant of MapDelete: the vulnerability is not marked as handled.
MapDeleteNothing(m, k) == m

MapDelete(m, k) == SelectSeq(m, LAMBDA e : e.key # k)
MapKeys(m) == {m[i].key : i \in 1..Len(m)}

\* main: newVulnerabilities after the loop over generateIssues(reports),
\* from issue i on.
RECURSIVE mapIssues(_, _, _)
mapIssues(m, generated, i) ==
  IF i > Len(generated) THEN m
  ELSE LET identifier == getIdentifier(generated[i])
       IN mapIssues(IF identifier # Null THEN MapSet(m, identifier, generated[i]) ELSE m,
                    generated, i + 1)

\* A mutant of reportsOfRun: the call of the earlier main
\* (src/src/index.ts:64), which hands the existing issues to the parser.
reportsOfRunExisting(data) == parseResults(data, getTrivyIssues)

\* parseResults(reportData) as main calls it: the report alone, no title of
\* an existing issue reaches the parser.
reportsOfRun(data) == parseResults(data, << >>)

mapNewVulnerabilities(data) ==
  LET parsed == reportsOfRun(data)
  IN IF ~parsed.isNull
     THEN mapIssues(<< >>, generateIssues(parsed.reports), 1)
     ELSE << >>

\* -------------------------------------------------------------------- main

Unset == [set |-> FALSE, fixable_vulnerability |-> "", created_issues |-> << >>,
          closed_issues |-> << >>, updated_issues |-> << >>]

\* No completed run of the same report precedes the current run.
NoRun == [dryRun |-> FALSE, log |-> << >>, listing |-> << >>, aborted |-> FALSE]

\* The successful closeIssue, reopenIssue and createIssue calls of the
\* current run.
appliedCalls ==
  {i \in DOMAIN calls :
     calls[i].ok /\ calls[i].op \in {"closeIssue", "reopenIssue", "createIssue"}}

\* The state before the first run, for a set of trackers and a set of values
\* of the two label inputs.
InitWith(trackers, labelInputs) ==
  /\ issues \in trackers
  /\ labels = {}
  /\ env \in [dryRun : {"true", "false"}, createLabels : labelInputs,
              enableFixLabel : labelInputs]
  /\ run = 0
  /\ pc = "idle"
  /\ reportData = [Results |-> List(<< >>)]
  /\ rerun = FALSE
  /\ prev = NoRun
  /\ existingTrivyIssues = << >>
  /\ reports = NullReports
  /\ parseError = FALSE
  /\ newVulnerabilities = << >>
  /\ idx = 1
  /\ calls = << >>
  /\ log = << >>
  /\ issuesCreated = << >>
  /\ issuesUpdated = << >>
  /\ issuesClosed = << >>
  /\ outputs = Unset
  /\ exitCode = 0

\* Any tracker of up to MaxInitIssues issues; the label inputs have their
\* documented default.
Init == InitWith(SeqsUpTo(InitIssues, MaxInitIssues), {"false"})

\* A mutant of abort: the error is logged and main goes on.
abortIgnored ==
  /\ pc' = pc
  /\ exitCode' = exitCode

\* abort(): process.exit(1).
abort ==
  /\ pc' = "aborted"
  /\ exitCode' = 1

\* The action is started on a report file with the dry-run input the
\* workflow gives it: a new process, new Inputs, the three response lists
\* empty.
StartRunAs(data, dry) ==
  /\ pc \in {"idle", "done", "aborted"}
  /\ run < MaxRuns
  /\ run' = run + 1
  /\ env' = [env EXCEPT !.dryRun = dry]
  /\ reportData' = data
  /\ rerun' = (pc = "done" /\ data = reportData)
  /\ prev' = IF pc = "done" /\ data = reportData
             THEN [dryRun |-> inputs.dryRun, log |-> log,
                   listing |-> IF inputs.dryRun THEN existingTrivyIssues ELSE << >>,
                   aborted |-> FALSE]
             ELSE IF pc = "aborted" /\ data = reportData /\ appliedCalls # {}
             THEN [NoRun EXCEPT !.aborted = TRUE]
             ELSE NoRun
  /\ existingTrivyIssues' = << >>
  /\ reports' = NullReports
  /\ parseError' = FALSE
  /\ pc' = "labels"
  /\ idx' = 1
  /\ calls' = << >>
  /\ log' = << >>
  /\ newVulnerabilities' = << >>
  /\ issuesCreated' = << >>
  /\ issuesUpdated' = << >>
  /\ issuesClosed' = << >>
  /\ outputs' = Unset
  /\ exitCode' = 0
  /\ UNCHANGED <<issues, labels>>

\* The action is started again by the same workflow: the inputs are those
\* of the run before.
StartRun(data) == StartRunAs(data, env.dryRun)

\* One iteration of the loop over labelsToCreate.
CreateLabelStep(ok) ==
  /\ pc = "labels"
  /\ idx <= Len(labelsToCreate)
  /\ LET label == labelsToCreate[idx]
     IN IF inputs.dryRun
        THEN /\ ok
             /\ log' = Append(log, [op |-> "createLabel", arg |-> label])
             /\ idx' = idx + 1
             /\ UNCHANGED <<labels, calls, pc, exitCode>>
        ELSE /\ calls' = Append(calls, Call("createLabelIfMissing", label, ok))
             /\ UNCHANGED log
             /\ IF ok
                THEN /\ labels' = labels \cup {label}
                     /\ idx' = idx + 1
                     /\ UNCHANGED <<pc, exitCode>>
                ELSE /\ abort
                     /\ UNCHANGED <<labels, idx>>
  /\ UNCHANGED <<issues, env, run, reportData, rerun, prev, runVars>>

\* The report is read, the existing issues are listed, the report is parsed
\* and the new vulnerabilities are keyed by their identifier.  The report
\* file is taken to be readable JSON: ReportDicts are its parsed values.
GetTrivyIssuesStep(ok) ==
  /\ pc = "labels"
  /\ idx > Len(labelsToCreate)
  /\ calls' = Append(calls, Call("getTrivyIssues", inputs.labels, ok))
  /\ IF ok
     THEN /\ existingTrivyIssues' = getTrivyIssues
          /\ reports' = reportsOfRun(reportData)
          /\ parseError' = parseThrows(reportData, << >>)
          /\ newVulnerabilities' = mapNewVulnerabilities(reportData)
          /\ pc' = "existing"
          /\ idx' = 1
          /\ UNCHANGED exitCode
     ELSE /\ abort
          /\ UNCHANGED <<existingTrivyIssues, reports, parseError,
                         newVulnerabilities, idx>>
  /\ UNCHANGED <<issues, labels, env, run, reportData, rerun, prev, log,
                 issuesCreated, issuesUpdated, issuesClosed, outputs>>

\* A mutant of transition: the state tests are exchanged.
transitionSwapped(existingIssue, vulnerabilityIsStillPresent) ==
  IF vulnerabilityIsStillPresent
  THEN IF existingIssue.state = "open" THEN "reopenIssue" ELSE "none"
  ELSE IF existingIssue.state = "closed" THEN "closeIssue" ELSE "none"

\* The gateway call main makes for an identifiable existing issue: a
\* closed issue whose vulnerability is still present is re-opened, an open
\* issue whose vulnerability is gone is closed.
transition(existingIssue, vulnerabilityIsStillPresent) ==
  IF vulnerabilityIsStillPresent
  THEN IF existingIssue.state = "closed" THEN "reopenIssue" ELSE "none"
  ELSE IF existingIssue.state = "open" THEN "closeIssue" ELSE "none"

\* A mutant of wouldDo: both [Dry Run] lines of the loop over the existing
\* issues say that the issue would be closed.
wouldDoClose(op, existingIssue) ==
  [op |-> "closeIssue", arg |-> existingIssue.number]

\* The [Dry Run] line written in place of a reopenIssue or closeIssue call.
wouldDo(op, existingIssue) == [op |-> op, arg |-> existingIssue.number]

\* One iteration of the loop over existingTrivyIssues: close a stale issue,
\* re-open an active one, mark a present vulnerability as handled.
ExistingStep(ok) ==
  /\ pc = "existing"
  /\ idx <= Len(existingTrivyIssues)
  /\ LET existingIssue == existingTrivyIssues[idx]
         identifier == getIdentifier(existingIssue)
         vulnerabilityIsStillPresent == MapHas(newVulnerabilities, identifier)
         op == transition(existingIssue, vulnerabilityIsStillPresent)
         handled == IF vulnerabilityIsStillPresent
                    THEN MapDelete(newVulnerabilities, identifier)
                    ELSE newVulnerabilities
     IN IF identifier = Null
        THEN /\ ok
             /\ idx' = idx + 1
             /\ UNCHANGED <<issues, calls, log, issuesUpdated, issuesClosed,
                            newVulnerabilities, pc, exitCode>>
        ELSE IF op = "none"
        THEN /\ ok
             /\ newVulnerabilities' = handled
             /\ idx' = idx + 1
             /\ UNCHANGED <<issues, calls, log, issuesUpdated, issuesClosed,
                            pc, exitCode>>
        ELSE IF inputs.dryRun
        THEN /\ ok
             /\ log' = Append(log, wouldDo(op, existingIssue))
             /\ newVulnerabilities' = handled
             /\ idx' = idx + 1
             /\ UNCHANGED <<issues, calls, issuesUpdated, issuesClosed, pc, exitCode>>
        ELSE /\ calls' = Append(calls, Call(op, existingIssue.number, ok))
             /\ UNCHANGED log
             /\ IF ok
                THEN /\ issues' = IF op = "reopenIssue"
                                  THEN reopenIssue(existingIssue.number)
                                  ELSE closeIssue(existingIssue.number)
                     /\ issuesUpdated' = IF op = "reopenIssue"
                                         THEN Append(issuesUpdated, existingIssue.number)
                                         ELSE issuesUpdated
                     /\ issuesClosed' = IF op = "closeIssue"
                                        THEN Append(issuesClosed, existingIssue.number)
                                        ELSE issuesClosed
                     /\ newVulnerabilities' = handled
                     /\ idx' = idx + 1
                     /\ UNCHANGED <<pc, exitCode>>
                ELSE /\ abort
                     /\ UNCHANGED <<issues, issuesUpdated, issuesClosed,
                                    newVulnerabilities, idx>>
  /\ UNCHANGED <<labels, env, run, reportData, rerun, prev, existingTrivyIssues,
                 reports, parseError, issuesCreated, outputs>>

\* A mutant of EndExisting: the issues are listed again before the loop
\* over the new vulnerabilities.
EndExistingRelist ==
  /\ pc = "existing"
  /\ idx > Len(existingTrivyIssues)
  /\ calls' = Append(calls, Call("getTrivyIssues", inputs.labels, TRUE))
  /\ existingTrivyIssues' = getTrivyIssues
  /\ pc' = "create"
  /\ idx' = 1
  /\ UNCHANGED <<issues, labels, env, run, reportData, rerun, prev, log,
                 exitCode, reports, parseError, newVulnerabilities,
                 issuesCreated, issuesUpdated, issuesClosed, outputs>>

\* The loop over existingTrivyIssues is over.
EndExisting ==
  /\ pc = "existing"
  /\ idx > Len(existingTrivyIssues)
  /\ pc' = "create"
  /\ idx' = 1
  /\ UNCHANGED <<issues, labels, env, run, reportData, rerun, prev, calls, log,
                 exitCode, runVars>>

\* One iteration of the loop over newVulnerabilities.values(): an issue for
\* a remaining vulnerability.
CreateStep(ok) ==
  /\ pc = "create"
  /\ idx <= Len(newVulnerabilities)
  /\ LET newIssue == newVulnerabilities[idx].value
         issueOption == [title |-> newIssue.title, body |-> newIssue.body,
                         labels |-> inputs.labels,
                         enableFixLabel |-> inputs.enableFixLabel,
                         fixLabel |-> inputs.fixLabel, hasFix |-> newIssue.hasFix]
     IN IF inputs.dryRun
        THEN /\ ok
             /\ log' = Append(log, [op |-> "createIssue", arg |-> newIssue.title])
             /\ idx' = idx + 1
             /\ UNCHANGED <<issues, calls, issuesCreated, pc, exitCode>>
        ELSE /\ calls' = Append(calls, Call("createIssue", issueOption, ok))
             /\ UNCHANGED log
             /\ IF ok
                THEN /\ issues' = createIssue(issueOption)
                     /\ issuesCreated' = Append(issuesCreated, Len(issues) + 1)
                     /\ idx' = idx + 1
                     /\ UNCHANGED <<pc, exitCode>>
                ELSE /\ abort
                     /\ UNCHANGED <<issues, issuesCreated, idx>>
  /\ UNCHANGED <<labels, env, run, reportData, rerun, prev, existingTrivyIssues,
                 reports, parseError, newVulnerabilities, issuesUpdated,
                 issuesClosed, outputs>>

\* A mutant of fixableVulnerabilityExists: only the vulnerabilities an
\* issue was created for count, as in the first test of the earlier main
\* (src/src/index.ts:125-128).
fixableOfCreated(data) ==
  \E i \in 1..Len(newVulnerabilities) : newVulnerabilities[i].value.hasFix

\* Determine if any fixable vulnerabilities exist at the end.
fixableVulnerabilityExists(data) ==
  LET finalReports == reportsOfRun(data)
  IN IF ~finalReports.isNull
     THEN \E i \in 1..Len(finalReports.reports) :
            finalReports.reports[i].package_fixed_version # Null
     ELSE FALSE

\* A mutant of SetOutputs: the outputs are set before the loop over the
\* new vulnerabilities.
SetOutputsEarly ==
  /\ pc = "create"
  /\ parseError' = (parseError \/ parseThrows(reportData, << >>))
  /\ outputs' = [set |-> TRUE,
                 fixable_vulnerability |->
                   IF fixableVulnerabilityExists(reportData) THEN "true" ELSE "false",
                 created_issues |-> issuesCreated,
                 closed_issues |-> issuesClosed,
                 updated_issues |-> issuesUpdated]
  /\ pc' = "done"
  /\ UNCHANGED <<issues, labels, env, run, reportData, rerun, prev,
                 existingTrivyIssues, reports, newVulnerabilities, idx, calls,
                 log, issuesCreated, issuesUpdated, issuesClosed, exitCode>>

\* The four outputs are set and main returns.
SetOutputs ==
  /\ pc = "create"
  /\ idx > Len(newVulnerabilities)
  /\ parseError' = (parseError \/ parseThrows(reportData, << >>))
  /\ outputs' = [set |-> TRUE,
                 fixable_vulnerability |->
                   IF fixableVulnerabilityExists(reportData) THEN "true" ELSE "false",
                 created_issues |-> issuesCreated,
                 closed_issues |-> issuesClosed,
                 updated_issues |-> issuesUpdated]
  /\ pc' = "done"
  /\ UNCHANGED <<issues, labels, env, run, reportData, rerun, prev,
                 existingTrivyIssues, reports, newVulnerabilities, idx, calls,
                 log, issuesCreated, issuesUpdated, issuesClosed, exitCode>>

Next ==
  \/ \E data \in ReportDicts : StartRun(data)
  \/ \E ok \in BOOLEAN : CreateLabelStep(ok)
  \/ \E ok \in BOOLEAN : GetTrivyIssuesStep(ok)
  \/ \E ok \in BOOLEAN : ExistingStep(ok)
  \/ EndExisting
  \/ \E ok \in BOOLEAN : CreateStep(ok)
  \/ SetOutputs

Spec == Init /\ [][Next]_vars

\* ------------------------------------------------------ parseResults alone

\* The findings of the reports parseResults is applied to on its own: one
\* without a fix, one with a fix, one without a package name.
ParseVulnerabilities ==
  {FirstVulnerability,
   [VulnerabilityID |-> <<"C">>, PkgName |-> <<"m">>,
    InstalledVersion |-> <<"2">>, FixedVersion |-> <<"3">>],
   NamelessVulnerability}

\* What may stand at the place of a result entry.
ParseEntries ==
  {Entry(TRUE, List(vs)) : vs \in SeqsUpTo(ParseVulnerabilities, MaxVulns)}
  \cup {Entry(FALSE, List(<< >>)), Entry(TRUE, NotAList), NotARecord}

\* Every report of up to MaxResults result entries, and one whose Results
\* is not a list.
ParseReportDicts ==
  {[Results |-> List(rs)] : rs \in SeqsUpTo(ParseEntries, MaxResults)}
  \cup {[Results |-> NotAList]}

\* The existing issues handed to parseResults: none, or one open issue.
ParseIssues ==
  {<< >>} \cup {<<[number |-> 1, title |-> t, state |-> "open"]>> : t \in InitTitles}

\* parseResults is about to be applied to a report and to existing issues.
InitParse ==
  /\ issues = << >>
  /\ labels = {}
  /\ env = [dryRun |-> "false", createLabels |-> "false", enableFixLabel |-> "false"]
  /\ run = 0
  /\ pc = "parse"
  /\ reportData \in ParseReportDicts
  /\ rerun = FALSE
  /\ prev = NoRun
  /\ existingTrivyIssues \in ParseIssues
  /\ reports = NullReports
  /\ parseError = FALSE
  /\ newVulnerabilities = << >>
  /\ idx = 1
  /\ calls = << >>
  /\ log = << >>
  /\ issuesCreated = << >>
  /\ issuesUpdated = << >>
  /\ issuesClosed = << >>
  /\ outputs = Unset
  /\ exitCode = 0

\* parseResults(data, existing_issues) returns.
ParseStep ==
  /\ pc = "parse"
  /\ reports' = parseResults(reportData, existingTrivyIssues)
  /\ parseError' = parseThrows(reportData, existingTrivyIssues)
  /\ pc' = "parsed"
  /\ UNCHANGED <<issues, labels, env, run, reportData, rerun, prev,
                 existingTrivyIssues, newVulnerabilities, idx, calls, log,
                 issuesCreated, issuesUpdated, issuesClosed, outputs, exitCode>>

NextParse == ParseStep

SpecParse == InitParse /\ [][NextParse]_vars

\* -------------------------------------------- a dry run before the real run

\* The first run of the workflow is a dry run.
InitDry ==
  /\ InitWith(SeqsUpTo(InitIssues, MaxInitIssues), {"false"})
  /\ env.dryRun = "true"

\* The workflow chooses the dry-run input of every run.
NextDry ==
  \/ \E data \in ReportDicts, dry \in {"true", "false"} : StartRunAs(data, dry)
  \/ \E ok \in BOOLEAN : CreateLabelStep(ok)
  \/ \E ok \in BOOLEAN : GetTrivyIssuesStep(ok)
  \/ \E ok \in BOOLEAN : ExistingStep(ok)
  \/ EndExisting
  \/ \E ok \in BOOLEAN : CreateStep(ok)
  \/ SetOutputs

SpecDry == InitDry /\ [][NextDry]_vars

\* ------------------------------------------------------ properties: vocabulary

IssueOps == {"createIssue", "reopenIssue", "closeIssue"}

\* The run of main is not a dry run.
NonDry == env.dryRun = "false"

\* The listing of the current run has been fetched.
Listed == pc \in {"existing", "create", "done"}
            \/ (pc = "aborted" /\ \E i \in DOMAIN calls :
                                    calls[i].op = "getTrivyIssues" /\ calls[i].ok)

\* The identifier a gateway call of the current run is about: that of the
\* title it creates, or of the listed issue whose number it passes.
CallIdentifier(c) ==
  IF c.op = "createIssue"
  THEN getIdentifier([title |-> c.arg.title])
  ELSE getIdentifier(existingTrivyIssues[c.arg])

CallsOf(op) == {i \in DOMAIN calls : calls[i].op = op}
IdentifiersOf(op) == {CallIdentifier(calls[i]) : i \in CallsOf(op)}

\* A report is well formed when Results is a list of records whose
\* Vulnerabilities field, where there is one, is a list.
WellFormed(data) ==
  /\ data.Results.kind = "list"
  /\ \A i \in DOMAIN data.Results.items :
       /\ data.Results.items[i].kind = "object"
       /\ data.Results.items[i].hasVulns =>
            data.Results.items[i].Vulnerabilities.kind = "list"

\* The findings of a report, each with the result entry it belongs to; a
\* malformed report yields no record.
ReportRecords(data) ==
  IF WellFormed(data)
  THEN UNION {{[result |-> data.Results.items[i],
                vulnerability |-> data.Results.items[i].Vulnerabilities.items[k]] :
                 k \in DOMAIN data.Results.items[i].Vulnerabilities.items} :
               i \in {j \in DOMAIN data.Results.items : data.Results.items[j].hasVulns}}
  ELSE {}

\* The title main gives the issue of a record, and the identifier under
\* which it keys the record.
RecordTitle(r) == Issue(Report(r.result, r.vulnerability)).title
RecordKey(r) == getIdentifier([title |-> RecordTitle(r)])

\* The identifiers under which main keys the records of the report.
ReportIdentifiers == {RecordKey(r) : r \in ReportRecords(reportData)}

\* The positions of the listing whose issue carries identifier x.
Carriers(x) == {n \in DOMAIN existingTrivyIssues :
                  getIdentifier(existingTrivyIssues[n]) = x}

ExistingIdentifiers ==
  {getIdentifier(existingTrivyIssues[n]) : n \in DOMAIN existingTrivyIssues} \ {Null}

\* A title has the shape "<id>: <type> package <name>-<version>" only if a
\* colon is followed by " package " and that by a hyphen.
HasShape(title) ==
  \E c, p, h \in 1..Len(title) :
    /\ title[c] = ":"
    /\ c < p
    /\ p + Len(PackageWord) <= h
    /\ SubSeq(title, p, p + Len(PackageWord) - 1) = PackageWord
    /\ title[h] = "-"

\* The identifier of a record: lowercase(vulnerabilityId) + "-" +
\* lowercase(packageName).
RecordIdentifier(v) ==
  toLowerCase(v.VulnerabilityID) \o Hyphen \o toLowerCase(v.PkgName)

\* ------------------------------------------------------------------ claims

C5_NoDuplicates ==
  /\ (\A n \in DOMAIN issues : issues[n].by >= 1) =>
       \A n, m \in DOMAIN issues :
         (n # m /\ getIdentifier(issues[n]) # Null)
            => getIdentifier(issues[n]) # getIdentifier(issues[m])
  /\ \A i \in CallsOf("createIssue") :
       /\ CallIdentifier(calls[i]) \notin ExistingIdentifiers
       /\ \A j \in CallsOf("createIssue") :
            i # j => CallIdentifier(calls[i]) # CallIdentifier(calls[j])

\* C5 witness: a tracker that was empty holds, after two completed runs,
\* an issue of the first run and an issue of the second, and the second run
\* had a record for the identifier of the first issue.
C5_Witness ==
  /\ pc = "done" /\ run = 2
  /\ \A n \in DOMAIN issues : issues[n].by >= 1
  /\ \E n, m \in DOMAIN issues :
       /\ issues[n].by = 1 /\ issues[m].by = 2
       /\ getIdentifier(issues[n]) \in ReportIdentifiers

\* C6 (no-op for findings that are still present), as claimed: an open
\* issue of the listing whose identifier is the identifier of a record of
\* the report gets no closeIssue call and no reopenIssue call.
C6_NoOpWhenPresent ==
  \A i \in CallsOf("closeIssue") \cup CallsOf("reopenIssue") :
    ~(/\ existingTrivyIssues[calls[i].arg].state = "open"
      /\ CallIdentifier(calls[i]) \in ReportIdentifiers)

\* The calls of the current run about identifier x, per operation.
CallsAbout(op, x) == {i \in CallsOf(op) : CallIdentifier(calls[i]) = x}

\* The calls a run has to make for identifier x, carried by issue n of the
\* listing (0 when no issue carries it): the decision table.
Decision(x, n) ==
  IF n = 0
  THEN IF x \in ReportIdentifiers THEN "createIssue" ELSE "none"
  ELSE IF x \in ReportIdentifiers
       THEN IF existingTrivyIssues[n].state = "closed" THEN "reopenIssue" ELSE "none"
       ELSE IF existingTrivyIssues[n].state = "open" THEN "closeIssue" ELSE "none"

C8_StatePreconditions ==
  \A i \in DOMAIN calls :
    /\ calls[i].op = "closeIssue" =>
         /\ calls[i].arg \in DOMAIN existingTrivyIssues
         /\ existingTrivyIssues[calls[i].arg].state = "open"
         /\ existingTrivyIssues[calls[i].arg].number = calls[i].arg
    /\ calls[i].op = "reopenIssue" =>
         /\ calls[i].arg \in DOMAIN existingTrivyIssues
         /\ existingTrivyIssues[calls[i].arg].state = "closed"
         /\ existingTrivyIssues[calls[i].arg].number = calls[i].arg

\* C8 witness: a run has closed one issue and re-opened another.
C8_Witness ==
  /\ \E i \in CallsOf("closeIssue") : calls[i].ok
  /\ \E i \in CallsOf("reopenIssue") : calls[i].ok

\* Issue n of the tracker was created by an earlier run for a record with
\* the vulnerabilityId and the packageName of record r.
CreatedForSameFinding(n, r) ==
  /\ issues[n].by >= 1
  /\ issues[n].by < run
  /\ \E v \in Vulnerabilities :
       /\ v.VulnerabilityID = r.vulnerability.VulnerabilityID
       /\ v.PkgName = r.vulnerability.PkgName
       /\ RecordTitle([result |-> r.result, vulnerability |-> v]) = issues[n].title

C10_TitleRoundTrip ==
  Listed =>
    \A r \in ReportRecords(reportData) :
      /\ titleRegex(RecordTitle(r)).ok
      /\ RecordKey(r) = RecordIdentifier(r.vulnerability)

\* ------------------------------------------- claims about parseResults alone

\* The report on which parseResults finds no vulnerability and no fault.
NoVulnerabilities == [Results |-> List(<< >>)]

\* C11 (parse failure is distinguishable from zero findings): the value
\* parseResults has returned for a malformed report differs from the value
\* it returns for the well-formed report without vulnerabilities.
C11_FailureDistinguishable ==
  (pc = "parsed" /\ ~WellFormed(reportData)) =>
    reports # parseResults(NoVulnerabilities, existingTrivyIssues)

\* ------------------------------------------------- claims about failing runs

\* C12 (a gateway failure is fatal): a gateway call that has failed is the
\* last gateway call of its run, and the run has ended with a non-zero exit
\* status.
C12_FailureFatal ==
  \A i \in DOMAIN calls :
    ~calls[i].ok => (i = Len(calls) /\ pc = "aborted" /\ exitCode # 0)

\* C12 witness: a run that has made a call before, has re-opened an issue,
\* whose closeIssue call has failed, and which has a vulnerability left to
\* create an issue for.
C12_Witness ==
  /\ pc = "aborted"
  /\ Len(calls) >= 3
  /\ calls[Len(calls)].op = "closeIssue"
  /\ ~calls[Len(calls)].ok
  /\ CallsOf("reopenIssue") # {}
  /\ Len(newVulnerabilities) > 0

\* The calls a non-dry run has to make on its listing and its report have
\* been made and have succeeded: closeIssue for every open identifiable
\* issue whose identifier the report does not have, reopenIssue for the
\* first issue with an identifier of the report when it is closed,
\* createIssue for every identifier of the report that no issue carries.
PlannedCallsMade ==
  /\ \A n \in DOMAIN existingTrivyIssues :
       LET x == getIdentifier(existingTrivyIssues[n])
       IN x # Null =>
            /\ (existingTrivyIssues[n].state = "open" /\ x \notin ReportIdentifiers) =>
                 \E i \in CallsOf("closeIssue") : calls[i].arg = n /\ calls[i].ok
            /\ (existingTrivyIssues[n].state = "closed" /\ x \in ReportIdentifiers
                  /\ n = SetMin(Carriers(x))) =>
                 \E i \in CallsOf("reopenIssue") : calls[i].arg = n /\ calls[i].ok
  /\ \A x \in ReportIdentifiers :
       Carriers(x) = {} => \E i \in CallsAbout("createIssue", x) : calls[i].ok

\* C13 (outputs only on completion): the four outputs are set only when
\* main has come to its end with every call of the run made and successful;
\* a run that has aborted has set none of them.
C13_OutputsOnCompletion ==
  /\ outputs.set =>
       /\ pc = "done"
       /\ exitCode = 0
       /\ \A i \in DOMAIN calls : calls[i].ok
       /\ NonDry => PlannedCallsMade
  /\ pc = "aborted" => outputs = Unset

\* C13 witness: a non-dry run has set its outputs after a closeIssue and a
\* createIssue call, and reports the created issue.
C13_Witness ==
  /\ outputs.set
  /\ NonDry
  /\ CallsOf("closeIssue") # {}
  /\ CallsOf("createIssue") # {}
  /\ outputs.created_issues # << >>
  /\ outputs.closed_issues # << >>

\* ---------------------------------------------------- claims about dry runs

\* The [Dry Run] lines of a log that stand for a call with operation op.
LinesOf(l, op) == {i \in DOMAIN l : l[i].op = op}

\* C14 (a dry run changes nothing): with the dry-run input 'true' no step
\* of main changes the issues, their states or the labels of the tracker,
\* and the only gateway call of a run is the listing of the issues.
C14_DryRunChangesNothing ==
  /\ [][env.dryRun = "true" => (issues' = issues /\ labels' = labels)]_vars
  /\ [](env.dryRun = "true" =>
          \A i \in DOMAIN calls : calls[i].op = "getTrivyIssues")

\* C14 witness: a dry run has completed on a tracker with issues and has
\* logged a label, a closeIssue and a createIssue it would have made.
C14_Witness ==
  /\ env.dryRun = "true"
  /\ pc = "done"
  /\ Len(issues) > 0
  /\ LinesOf(log, "createLabel") # {}
  /\ LinesOf(log, "closeIssue") # {}
  /\ LinesOf(log, "createIssue") # {}

\* What a [Dry Run] log says would be passed to operation op, and what the
\* calls of the current run have passed to it: an issue number, or the
\* title of the issue to create.
IntendedArgs(l, op) == {l[i].arg : i \in LinesOf(l, op)}
CalledArgs(op) ==
  {IF op = "createIssue" THEN calls[i].arg.title ELSE calls[i].arg : i \in CallsOf(op)}

\* C15 (a dry run plans what a real run does): when a non-dry run has
\* completed on the report and the listing of the dry run before it, its
\* closeIssue, reopenIssue and createIssue calls are the actions the dry
\* run has logged.
C15_DryRunPlansSame ==
  (pc = "done" /\ rerun /\ prev.dryRun /\ env.dryRun = "false"
     /\ existingTrivyIssues = prev.listing) =>
    \A op \in IssueOps : IntendedArgs(prev.log, op) = CalledArgs(op)

\* C15 witness: such a pair of runs, in which an issue is re-opened, one is
\* closed and one is created.
C15_Witness ==
  /\ pc = "done" /\ rerun /\ prev.dryRun /\ env.dryRun = "false"
  /\ existingTrivyIssues = prev.listing
  /\ \A op \in IssueOps : CallsOf(op) # {}

\* ------------------------------------------------ claims about the outputs

\* The findings of the report whose tracking issue (an issue of the tracker
\* with the identifier main keys the finding by) is open.
OpenFindings ==
  {r \in ReportRecords(reportData) :
     \E n \in DOMAIN issues :
       issues[n].state = "open" /\ getIdentifier(issues[n]) = RecordKey(r)}

C17_LabelInputsHonoured ==
  /\ env.createLabels = "false" => CallsOf("createLabelIfMissing") = {}
  /\ (env.createLabels = "true" /\ NonDry /\ Listed) =>
       \A k \in DOMAIN LabelsInput :
         \E i \in CallsOf("createLabelIfMissing") : calls[i].arg = LabelsInput[k]
  /\ env.enableFixLabel # "true" =>
       /\ \A i \in CallsOf("createLabelIfMissing") : calls[i].arg # FixLabelInput
       /\ \A i \in CallsOf("createIssue") : ~calls[i].arg.enableFixLabel

\* Every finding of a report of the right shape has a VulnerabilityID and
\* a PkgName.
FindingsNamed(data) ==
  \A r \in ReportRecords(data) :
    r.vulnerability.VulnerabilityID # Undefined /\ r.vulnerability.PkgName # Undefined

\* The entries of Results that have the right shape.
GoodEntries(data) ==
  {i \in DOMAIN data.Results.items :
     /\ data.Results.items[i].kind = "object"
     /\ data.Results.items[i].hasVulns => data.Results.items[i].Vulnerabilities.kind = "list"}

\* C18 (parser validation): parseResults has taken its failure path (the
\* error logged, null returned) if and only if Results is not a list, or
\* an entry is not a record, or a Vulnerabilities field is not a list; on
\* failure it has returned no record.
C18_ParserValidation ==
  pc = "parsed" =>
    /\ parseError <=> ~WellFormed(reportData)
    /\ parseError => reports = NullReports

\* C18 as amended: the failure path is also taken when a finding has no
\* VulnerabilityID or no PkgName; a report that does not fail yields only
\* records of findings of its entries, none for an entry without a
\* Vulnerabilities field.
C18_ParserValidationAmended ==
  pc = "parsed" =>
    /\ parseError <=> ~(WellFormed(reportData) /\ FindingsNamed(reportData))
    /\ parseError => reports = NullReports
    /\ \A i \in DOMAIN reports.reports :
         \E r \in ReportRecords(reportData) :
           reports.reports[i] = Report(r.result, r.vulnerability)

\* C18 witness: parseResults has failed on a report whose first entry has
\* named findings and whose second entry is malformed.
C18_Witness ==
  /\ pc = "parsed"
  /\ parseError
  /\ reports = NullReports
  /\ reportData.Results.kind = "list"
  /\ Len(reportData.Results.items) = 2
  /\ GoodEntries(reportData) = {1}
  /\ reportData.Results.items[1].hasVulns
  /\ Len(reportData.Results.items[1].Vulnerabilities.items) > 0
  /\ \A k \in DOMAIN reportData.Results.items[1].Vulnerabilities.items :
       reportData.Results.items[1].Vulnerabilities.items[k].PkgName # Undefined

\* The findings of the entries items[i], items[i+1], ... in input order:
\* result-major, then vulnerability-minor.
RECURSIVE FindingsFrom(_, _)
FindingsFrom(items, i) ==
  IF i > Len(items) THEN << >>
  ELSE (IF items[i].hasVulns
        THEN [k \in DOMAIN items[i].Vulnerabilities.items |->
                [result |-> items[i],
                 vulnerability |-> items[i].Vulnerabilities.items[k]]]
        ELSE << >>) \o FindingsFrom(items, i + 1)

\* The records of a well-formed report, one for each finding, in input
\* order.
RecordsInOrder(data) ==
  LET fs == FindingsFrom(data.Results.items, 1)
  IN [k \in DOMAIN fs |-> Report(fs[k].result, fs[k].vulnerability)]

\* C19 (one record per finding, in input order): for a well-formed report
\* parseResults has returned exactly the records of its findings, in
\* result-major then vulnerability-minor order, whatever the existing
\* issues are.
C19_OneRecordPerFinding ==
  (pc = "parsed" /\ WellFormed(reportData) /\ FindingsNamed(reportData)) =>
    reports.reports = RecordsInOrder(reportData)

\* ------------------------------------------- claims about colliding records

\* The positions, in parse order, of the findings of the report that main
\* keys by identifier x.
PositionsOf(x) ==
  LET fs == FindingsFrom(reportData.Results.items, 1)
  IN {k \in DOMAIN fs : RecordKey(fs[k]) = x}

\* The issue generateIssues makes of the last finding keyed by x.
LastIssueOf(x) ==
  LET fs == FindingsFrom(reportData.Results.items, 1)
      last == CHOOSE k \in PositionsOf(x) : \A j \in PositionsOf(x) : j <= k
  IN Issue(Report(fs[last].result, fs[last].vulnerability))

PlanArgs(op) ==
  IF op = "closeIssue"
  THEN {n \in DOMAIN existingTrivyIssues :
          LET x == getIdentifier(existingTrivyIssues[n])
          IN /\ x # Null
             /\ existingTrivyIssues[n].state = "open"
             /\ (x \notin ReportIdentifiers \/ n # SetMin(Carriers(x)))}
  ELSE IF op = "reopenIssue"
  THEN {n \in DOMAIN existingTrivyIssues :
          LET x == getIdentifier(existingTrivyIssues[n])
          IN /\ x # Null
             /\ existingTrivyIssues[n].state = "closed"
             /\ x \in ReportIdentifiers
             /\ n = SetMin(Carriers(x))}
  ELSE {LastIssueOf(x).title : x \in {y \in ReportIdentifiers : Carriers(y) = {}}}

\* C21 (single snapshot): a run lists the existing issues at most once and
\* before every closeIssue, reopenIssue and createIssue call; a completed
\* run has listed them once, and the calls of a non-dry run are those that
\* its listing and its report alone determine, each made once.
C21_SingleSnapshot ==
  /\ Cardinality(CallsOf("getTrivyIssues")) <= 1
  /\ \A op \in IssueOps : \A i \in CallsOf(op) :
       \E j \in CallsOf("getTrivyIssues") : j < i /\ calls[j].ok
  /\ pc = "done" => Cardinality(CallsOf("getTrivyIssues")) = 1
  /\ (Listed /\ NonDry) => \A op \in IssueOps : CalledArgs(op) \subseteq PlanArgs(op)
  /\ (pc = "done" /\ NonDry) =>
       \A op \in IssueOps :
         /\ CalledArgs(op) = PlanArgs(op)
         /\ Cardinality(CallsOf(op)) = Cardinality(PlanArgs(op))

\* C21 witness: a completed non-dry run that re-opened the first issue of
\* its listing, closed the second and created an issue, so that the
\* tracker is no longer what the listing says.
C21_Witness ==
  /\ pc = "done" /\ NonDry
  /\ \A op \in IssueOps : CallsOf(op) # {}
  /\ \E n \in DOMAIN existingTrivyIssues : issues[n].state # existingTrivyIssues[n].state

\* ------------------------------------------- claims about distinct findings

\* The (vulnerabilityId, packageName) pairs of the report, compared without
\* regard to case.
ReportPairs ==
  {<<toLowerCase(r.vulnerability.VulnerabilityID), toLowerCase(r.vulnerability.PkgName)>> :
     r \in ReportRecords(reportData)}

\* C22 (distinct findings get distinct issues): two records of the report
\* whose (vulnerabilityId, packageName) pairs differ are not keyed by one
\* identifier, and a completed non-dry run on an empty tracker has created
\* one issue for each pair of the report.
C22_DistinctFindings ==
  /\ \A r, s \in ReportRecords(reportData) :
       (toLowerCase(r.vulnerability.VulnerabilityID) # toLowerCase(s.vulnerability.VulnerabilityID)
          \/ toLowerCase(r.vulnerability.PkgName) # toLowerCase(s.vulnerability.PkgName))
         => RecordKey(r) # RecordKey(s)
  /\ (pc = "done" /\ NonDry /\ existingTrivyIssues = << >>) =>
       Cardinality(CallsOf("createIssue")) = Cardinality(ReportPairs)

\* ---------------------------------------------- claims about a null result

\* The open identifiable issues of the listing.
OpenIdentifiable ==
  {n \in DOMAIN existingTrivyIssues :
     existingTrivyIssues[n].state = "open" /\ getIdentifier(existingTrivyIssues[n]) # Null}

\* C23 (a null parse result is handled as no findings): parseResults has
\* returned null for a report that is malformed or has no finding; a
\* non-dry run for which it returned null makes no createIssue and no
\* reopenIssue call, aborts only on a failed gateway call, and when it has
\* completed it has called closeIssue on every open identifiable issue of
\* the listing and has set the outputs.
C23_NullAsNoFindings ==
  /\ (Listed /\ ReportRecords(reportData) = {}) => reports.isNull
  /\ (Listed /\ NonDry /\ ReportRecords(reportData) = {}) =>
       /\ CallsOf("createIssue") = {}
       /\ CallsOf("reopenIssue") = {}
       /\ pc = "aborted" => ~calls[Len(calls)].ok
       /\ pc = "done" => (CalledArgs("closeIssue") = OpenIdentifiable /\ outputs.set)

\* C23 witness: a non-dry run has completed on a malformed report whose
\* first entry has a finding, and has closed the open issue of that
\* finding.
C23_Witness ==
  /\ pc = "done" /\ NonDry
  /\ parseError
  /\ reports.isNull
  /\ Len(reportData.Results.items) = 2
  /\ outputs.set
  /\ \E n \in OpenIdentifiable :
       /\ n \in CalledArgs("closeIssue")
       /\ RecordKey([result |-> reportData.Results.items[1],
                     vulnerability |-> reportData.Results.items[1].Vulnerabilities.items[1]])
            = getIdentifier(existingTrivyIssues[n])

\* ------------------------------------------------- claims about duplicates

CreatedByRunBefore == {n \in DOMAIN issues : issues[n].by = run - 1}

====
